---- MODULE Spec2Model ----
(***************************************************************************)
(* fast-litellm: the components litellm_rust_accelerator exports when the  *)
(* compiled extension is absent (the fallback classes of                   *)
(* litellm_rust_accelerator/__init__.py), driven by callers shaped like the *)
(* repository's tests; and, for what those classes do not have at all (an  *)
(* encoding cache, a cooldown), the compiled TokenCounter and Router as    *)
(* their design describes them; and the glue around them: the call         *)
(* wrappers of fast_litellm.enhanced_monkeypatch, apply / remove of the    *)
(* two monkeypatch modules, litellm_rust.diagnostics, and the globals     *)
(* enable_rust_acceleration keeps in litellm_rust_accelerator.             *)
(* Every component has a specification of its own: the other components    *)
(* stay as constructed with their defaults.                                *)
(***************************************************************************)
EXTENDS Integers, Sequences, FiniteSets, TLC

(***************************************************************************)
(* Bounds of the model.                                                    *)
(***************************************************************************)
MaxCapacity == 2      \* SimpleConnectionPool(n), n in 1..MaxCapacity
MaxLeases == 3        \* checkouts outstanding at once, all providers together
MaxTime == 3          \* the rate limiter's clock runs 0..MaxTime
MaxLimit == 2         \* check_rate_limit(key, limit, window): limit in 1..MaxLimit
MaxWindow == 2        \* ... and window_seconds in 1..MaxWindow
MaxUnits == 2         \* units consumed per key over a whole run
MaxCacheSize == 1     \* SimpleTokenCounter(n), n in 0..MaxCacheSize
MaxCalls == 3         \* token counter calls over a whole run, both counters together
MaxBatch == 2         \* count_tokens_batch takes up to MaxBatch texts
MaxAdds == 2          \* add_deployment calls accepted per model name
MaxNativeCache == 2   \* native TokenCounter(n), n in 1..MaxNativeCache
MaxNativeCalls == 4   \* native count_tokens calls over a whole run
MaxCooldown == 1      \* RouterConfig.cooldown_time_seconds in 1..MaxCooldown
MaxRouterTime == 2    \* the router's clock runs 0..MaxRouterTime
MaxInFlight == 1      \* requests routed and not yet reported, all deployments
MaxLatency == 1       \* reported latencies in 1..MaxLatency
MaxWrapperCalls == 3  \* calls made through a PerformanceWrapper over a whole run
MaxApplies == 2       \* apply_acceleration calls over a whole run, both modules together
MaxHealthChecks == 1  \* diagnostics.health_check() calls over a whole run
MaxEnableCalls == 2   \* enable_rust_acceleration calls after the import

(***************************************************************************)
(* Constructor defaults.                                                   *)
(***************************************************************************)
DefaultMaxConnections == 10
DefaultCacheSize == 100

\* approx_token_length of count_tokens
approx_token_length == 4


VARIABLES
    max_connections_per_provider,  \* SimpleConnectionPool's only field
    pool_in_use,       \* callers: handle id -> checkouts not yet given back
    pool_available,    \* callers: handle ids given back and not checked out since
    pool_issued,       \* callers: every handle id get_connection has returned
    pool_closed,       \* callers: handle ids close_connection reported closed
    pool_last          \* the last pool call, its result, and the state it met

poolVars == <<max_connections_per_provider, pool_in_use, pool_available,
              pool_issued, pool_closed, pool_last>>

VARIABLES
    rl_now,            \* the clock the limiter's callers live by
    rl_consumed,       \* callers: key -> time -> units consume_tokens accepted then
    rl_last            \* the last limiter call, its result, and the state it met

limiterVars == <<rl_now, rl_consumed, rl_last>>

VARIABLES
    cache_size,        \* SimpleTokenCounter's only field, one per counter object
    tc_calls,          \* callers: token counter calls made so far
    tc_log,            \* callers: every count count_tokens returned, and for what
    tc_batch           \* the last count_tokens_batch call and its result

counterVars == <<cache_size, tc_calls, tc_log, tc_batch>>

VARIABLES
    rust_enabled,      \* LiteLLMCore's only field
    core_added,        \* callers: model name -> add_deployment calls that were accepted
    core_last          \* the last LiteLLMCore call, its result, and the state it met

coreVars == <<rust_enabled, core_added, core_last>>

VARIABLES
    nc_cache_size,     \* native TokenCounter: capacity of the encoding cache
    nc_lru,            \* its cached models, least recently used first
    nc_clock,          \* count_tokens calls made so far
    nc_touched,        \* callers: model -> the call that last counted with it
    nc_loaded,         \* callers: model -> the call that last loaded it
    nc_last            \* the last native count_tokens call and what it did

nativeCounterVars == <<nc_cache_size, nc_lru, nc_clock, nc_touched, nc_loaded, nc_last>>

VARIABLES
    nr_config,         \* native Router: RouterConfig, fixed at construction
    nr_deployments,    \* its registered model names, in insertion order
    nr_busy,           \* model name -> requests routed to it and not yet reported
    nr_latency,        \* model name -> rolling average latency (0: no sample yet)
    nr_cooldown_until, \* model name -> when its cooldown expires
    nr_failed_at,      \* callers: model name -> when its last failure was signaled
    nr_now,            \* the router's clock
    nr_last            \* the last route_request / add_deployment and its result

nativeRouterVars == <<nr_config, nr_deployments, nr_busy, nr_latency,
                      nr_cooldown_until, nr_failed_at, nr_now, nr_last>>

VARIABLES
    rl_policy,         \* callers: the limit and window every admission thread checks with
    rl_pc              \* callers: thread -> where it is between its check and its consume

guardVars == <<rl_policy, rl_pc>>

VARIABLES
    pw_wrapper,        \* the wrapper enhanced_patch_function installed: its class, its
                       \* _mode, and whether original_func and rust_func are coroutine functions
    ff_errors,         \* feature_flags: errors recorded against the wrapper's feature
    ff_state,          \* feature_flags: the state the manager holds for the feature now
    td_active,         \* a temporary_disable_feature block for the feature is open
    td_saved,          \* temporary_disable_feature: its original_state
    pw_calls,          \* calls made through the wrapper so far
    pw_last            \* the last call through the wrapper and what came of it

wrapperVars == <<pw_wrapper, ff_errors, ff_state, td_active, td_saved, pw_calls, pw_last>>

VARIABLES
    mp_attr,           \* patching module -> qualified name -> what the attribute holds
    original_classes,  \* patching module -> its registry of originals (_original_classes,
                       \* _original_implementations): qualified name -> stored value
    mp_first,          \* callers: what each attribute held before any acceleration
    mp_replaced,       \* callers: the attributes acceleration has replaced
    rust_implementations,  \* keys of _rust_implementations (enhanced module)
    patched_functions,     \* keys of _patched_functions (enhanced module)
    mp_applies,        \* apply_acceleration calls made so far
    mp_last            \* the last apply / remove call

patchVars == <<mp_attr, original_classes, rust_implementations, patched_functions,
               mp_first, mp_replaced, mp_applies, mp_last>>

VARIABLES
    RUST_ACCELERATION_AVAILABLE,  \* rust_extensions.RUST_ACCELERATION_AVAILABLE
    diagnostics_available,        \* diagnostics.RUST_ACCELERATION_AVAILABLE, the name
                                  \* bound by diagnostics' from-import
    hc_calls,          \* diagnostics.health_check() calls made so far
    hc_last            \* the last health_check() call: what the components' checks
                       \* did, what it returned, what it raised

healthVars == <<RUST_ACCELERATION_AVAILABLE, diagnostics_available, hc_calls, hc_last>>

VARIABLES
    RUST_AVAILABLE,        \* litellm_rust_accelerator._RUST_AVAILABLE
    RUST_COMPONENTS,       \* _RUST_COMPONENTS: the names it maps, none for None
    ACCELERATION_ENABLED,  \* _ACCELERATION_ENABLED
    ea_calls,              \* enable_rust_acceleration calls made after the import
    ea_last                \* the last enable_rust_acceleration call and its result

acceleratorVars == <<RUST_AVAILABLE, RUST_COMPONENTS, ACCELERATION_ENABLED,
                     ea_calls, ea_last>>

laterVars == <<wrapperVars, patchVars, healthVars, acceleratorVars>>

vars == <<poolVars, limiterVars, counterVars, coreVars, nativeCounterVars,
          nativeRouterVars, guardVars, laterVars>>

notPool == <<limiterVars, counterVars, coreVars, nativeCounterVars, nativeRouterVars,
             guardVars, laterVars>>
notLimiter == <<poolVars, counterVars, coreVars, nativeCounterVars, nativeRouterVars,
                guardVars, laterVars>>
notCounter == <<poolVars, limiterVars, coreVars, nativeCounterVars, nativeRouterVars,
                guardVars, laterVars>>
notCore == <<poolVars, limiterVars, counterVars, nativeCounterVars, nativeRouterVars,
             guardVars, laterVars>>
notNativeCounter == <<poolVars, limiterVars, counterVars, coreVars, nativeRouterVars,
                      guardVars, laterVars>>
notNativeRouter == <<poolVars, limiterVars, counterVars, coreVars, nativeCounterVars,
                     guardVars, laterVars>>
notGuard == <<poolVars, counterVars, coreVars, nativeCounterVars, nativeRouterVars,
              laterVars>>
notWrapper == <<poolVars, limiterVars, counterVars, coreVars, nativeCounterVars,
                nativeRouterVars, guardVars, patchVars, healthVars, acceleratorVars>>
notPatch == <<poolVars, limiterVars, counterVars, coreVars, nativeCounterVars,
              nativeRouterVars, guardVars, wrapperVars, healthVars, acceleratorVars>>
notHealth == <<poolVars, limiterVars, counterVars, coreVars, nativeCounterVars,
               nativeRouterVars, guardVars, wrapperVars, patchVars, acceleratorVars>>
notAccelerator == <<poolVars, limiterVars, counterVars, coreVars, nativeCounterVars,
                    nativeRouterVars, guardVars, wrapperVars, patchVars, healthVars>>

(***************************************************************************)
(* SimpleConnectionPool                                                    *)
(***************************************************************************)
Providers == {"p", "q"}

PoolExhaustedError == "PoolExhaustedError"

\* f"{provider}_connection"
ConnectionId(provider) == provider \o "_connection"

\* A handle id no get_connection ever returned.
UnknownHandle == "unknown"

HandleIds == {ConnectionId(p) : p \in Providers} \cup {UnknownHandle}

\* The provider a handle id belongs to ("" for the unknown handle).
ProviderOf(h) ==
    IF \E p \in Providers : ConnectionId(p) = h
    THEN CHOOSE p \in Providers : ConnectionId(p) = h
    ELSE ""

\* A pool that keeps one handle for all providers.
get_connection_shared(provider) == ConnectionId("p")

\* A pool that answers with another provider's handle.
get_connection_swapped(provider) ==
    ConnectionId(CHOOSE q \in Providers : q # provider)

get_connection(provider) == ConnectionId(provider)

return_connection(connection_id) == TRUE

close_connection(connection_id) == TRUE

get_pool_stats ==
    [providers |-> 0, total_available |-> 0, total_in_use |-> 0,
     max_connections_per_provider |-> max_connections_per_provider]

RECURSIVE SumOver(_, _)
SumOver(f, S) ==
    IF S = {} THEN 0
    ELSE LET x == CHOOSE y \in S : TRUE IN f[x] + SumOver(f, S \ {x})

\* Checkouts of provider p's handles that callers still hold.
InUseCount(p) == SumOver(pool_in_use, {h \in HandleIds : ProviderOf(h) = p})

\* Handles of provider p that were given back and are free to hand out again.
AvailableOf(p) == {h \in pool_available : ProviderOf(h) = p}

LeaseTotal == SumOver(pool_in_use, HandleIds)

NoCall == [op |-> "none", arg |-> "", result |-> "", in_use_before |-> 0,
           available_before |-> {}, held_before |-> 0,
           issued_before |-> {}, closed_before |-> {}]

PoolInit(capacity) ==
    /\ max_connections_per_provider = capacity
    /\ pool_in_use = [h \in HandleIds |-> 0]
    /\ pool_available = {}
    /\ pool_issued = {}
    /\ pool_closed = {}
    /\ pool_last = NoCall

\* conn_id = pool.get_connection(provider): the caller holds what it was given.
GetConnection(p) ==
    /\ LeaseTotal < MaxLeases
    /\ LET r == get_connection(p) IN
        /\ pool_last' = [op |-> "get", arg |-> p, result |-> r,
                         in_use_before |-> InUseCount(p),
                         available_before |-> AvailableOf(p),
                         held_before |-> IF r \in HandleIds THEN pool_in_use[r] ELSE 0,
                         issued_before |-> pool_issued,
                         closed_before |-> pool_closed]
        /\ IF r = PoolExhaustedError
           THEN UNCHANGED <<pool_in_use, pool_available, pool_issued>>
           ELSE /\ pool_in_use' = [pool_in_use EXCEPT ![r] = @ + 1]
                /\ pool_available' = pool_available \ {r}
                /\ pool_issued' = pool_issued \cup {r}
    /\ UNCHANGED <<max_connections_per_provider, pool_closed, notPool>>

\* pool.return_connection(conn_id): on True the caller no longer holds the handle.
ReturnConnection(h) ==
    /\ LET ok == return_connection(h) IN
        /\ pool_last' = [op |-> "return", arg |-> h, result |-> ok,
                         in_use_before |-> pool_in_use[h],
                         available_before |-> pool_available \cap {h},
                         held_before |-> pool_in_use[h],
                         issued_before |-> pool_issued,
                         closed_before |-> pool_closed]
        /\ IF ok /\ pool_in_use[h] > 0
           THEN /\ pool_in_use' = [pool_in_use EXCEPT ![h] = @ - 1]
                /\ pool_available' = pool_available \cup {h}
           ELSE UNCHANGED <<pool_in_use, pool_available>>
    /\ UNCHANGED <<max_connections_per_provider, pool_issued, pool_closed, notPool>>

\* pool.close_connection(conn_id): on True the handle is gone for its holder.
CloseConnection(h) ==
    /\ LET ok == close_connection(h) IN
        /\ pool_last' = [op |-> "close", arg |-> h, result |-> ok,
                         in_use_before |-> pool_in_use[h],
                         available_before |-> pool_available \cap {h},
                         held_before |-> pool_in_use[h],
                         issued_before |-> pool_issued,
                         closed_before |-> pool_closed]
        /\ IF ok /\ pool_in_use[h] > 0
           THEN /\ pool_in_use' = [pool_in_use EXCEPT ![h] = @ - 1]
                /\ UNCHANGED pool_available
           ELSE /\ pool_available' = pool_available \ {h}
                /\ UNCHANGED pool_in_use
        /\ pool_closed' = IF ok THEN pool_closed \cup {h} ELSE pool_closed
    /\ UNCHANGED <<max_connections_per_provider, pool_issued, notPool>>

PoolNext ==
    \/ \E p \in Providers : GetConnection(p)
    \/ \E h \in HandleIds : ReturnConnection(h)
    \/ \E h \in HandleIds : CloseConnection(h)

(***************************************************************************)
(* SimpleRateLimiter                                                       *)
(***************************************************************************)
Keys == {"user1", "user2"}

Times == 0..MaxTime

check_rate_limit(key, limit, window_seconds) == TRUE

consume_tokens(key, tokens) == TRUE

get_rate_limit_stats == [tracked_keys |-> 0, total_requests |-> 0]

\* Units accepted for key with a timestamp in (T - window, T].
UnitsInWindow(key, T, window) ==
    SumOver(rl_consumed[key], {t \in Times : t > T - window /\ t <= T})

\* Units accepted for key at any time up to T.
UnitsEver(key, T) == SumOver(rl_consumed[key], {t \in Times : t <= T})

NoLimiterCall == [op |-> "none", key |-> "", limit |-> 0, window |-> 0,
                  tokens |-> 0, result |-> TRUE, in_window |-> 0, ever |-> 0]

LimiterInit ==
    /\ rl_now = 0
    /\ rl_consumed = [k \in Keys |-> [t \in Times |-> 0]]
    /\ rl_last = NoLimiterCall

\* Time passes between calls.
Tick ==
    /\ rl_now < MaxTime
    /\ rl_now' = rl_now + 1
    /\ UNCHANGED <<rl_consumed, rl_last, notLimiter>>

\* within_limit = limiter.check_rate_limit(user, limit, window)
CheckRateLimit(key, limit, window) ==
    /\ rl_last' = [op |-> "check", key |-> key, limit |-> limit, window |-> window,
                   tokens |-> 0,
                   result |-> check_rate_limit(key, limit, window),
                   in_window |-> UnitsInWindow(key, rl_now, window),
                   ever |-> UnitsEver(key, rl_now)]
    /\ UNCHANGED <<rl_now, rl_consumed, notLimiter>>

\* consumed = limiter.consume_tokens(user, tokens): accepted units are on record.
ConsumeTokens(key, tokens) ==
    /\ UnitsEver(key, MaxTime) + tokens <= MaxUnits
    /\ LET ok == consume_tokens(key, tokens) IN
        /\ rl_last' = [op |-> "consume", key |-> key, limit |-> 0, window |-> 0,
                       tokens |-> tokens, result |-> ok,
                       in_window |-> 0, ever |-> UnitsEver(key, rl_now)]
        /\ rl_consumed' = IF ok
                          THEN [rl_consumed EXCEPT ![key][rl_now] = @ + tokens]
                          ELSE rl_consumed
    /\ UNCHANGED <<rl_now, notLimiter>>

LimiterNext ==
    \/ Tick
    \/ \E k \in Keys, l \in 1..MaxLimit, w \in 1..MaxWindow : CheckRateLimit(k, l, w)
    \/ \E k \in Keys, n \in 1..MaxUnits : ConsumeTokens(k, n)

(***************************************************************************)
(* Threads that admit a request only after asking the limiter: each calls  *)
(* check_rate_limit and, if that returned True, consume_tokens.            *)
(***************************************************************************)
Threads == {"t1", "t2"}

\* combined_limiter.check_rate_limit(user, 100, 60)
TestLimit == 100
TestWindow == 60

Idle == [state |-> "idle", key |-> ""]

GuardInit(limit, window) ==
    /\ rl_policy = [limit |-> limit, window |-> window]
    /\ rl_pc = [t \in Threads |-> Idle]

\* Threads whose check for key returned True and that have not consumed yet.
Admitted(key) == {t \in Threads : rl_pc[t] = [state |-> "admitted", key |-> key]}

\* within_limit = limiter.check_rate_limit(user, limit, window) in thread t
ThreadCheck(t, key) ==
    /\ rl_pc[t].state = "idle"
    /\ UnitsEver(key, MaxTime) + Cardinality(Admitted(key)) < MaxUnits
    /\ LET within_limit == check_rate_limit(key, rl_policy.limit, rl_policy.window) IN
        /\ rl_last' = [op |-> "check", key |-> key, limit |-> rl_policy.limit,
                       window |-> rl_policy.window, tokens |-> 0,
                       result |-> within_limit,
                       in_window |-> UnitsInWindow(key, rl_now, rl_policy.window),
                       ever |-> UnitsEver(key, rl_now)]
        /\ rl_pc' = IF within_limit
                     THEN [rl_pc EXCEPT ![t] = [state |-> "admitted", key |-> key]]
                     ELSE rl_pc
    /\ UNCHANGED <<rl_now, rl_consumed, rl_policy, notGuard>>

\* if within_limit: limiter.consume_tokens(user, 1) in thread t
ThreadConsume(t) ==
    /\ rl_pc[t].state = "admitted"
    /\ LET key == rl_pc[t].key
           ok == consume_tokens(key, 1)
       IN
        /\ rl_last' = [op |-> "consume", key |-> key, limit |-> 0, window |-> 0,
                       tokens |-> 1, result |-> ok,
                       in_window |-> 0, ever |-> UnitsEver(key, rl_now)]
        /\ rl_consumed' = IF ok
                          THEN [rl_consumed EXCEPT ![key][rl_now] = @ + 1]
                          ELSE rl_consumed
    /\ rl_pc' = [rl_pc EXCEPT ![t] = Idle]
    /\ UNCHANGED <<rl_now, rl_policy, notGuard>>

GuardedNext ==
    \/ Tick
    \/ \E t \in Threads, k \in Keys : ThreadCheck(t, k)
    \/ \E t \in Threads : ThreadConsume(t)

(***************************************************************************)
(* SimpleTokenCounter                                                      *)
(***************************************************************************)
Counters == {1, 2}

Models == {"gpt-3.5-turbo", "gpt-4"}

\* Lengths 0 and 5: the empty text and one that ends inside a token.
Texts == {"", "abcde"}

RECURSIVE SeqsUpTo(_, _)
SeqsUpTo(S, n) ==
    IF n = 0 THEN {<<>>}
    ELSE LET shorter == SeqsUpTo(S, n - 1) IN
         shorter \cup {Append(q, x) : q \in shorter, x \in S}

\* A count that the counter's capacity leaks into.
count_tokens_capped(self, text, model) ==
    LET char_count == Len(text)
        n == (char_count + approx_token_length - 1) \div approx_token_length
    IN IF n <= cache_size[self] THEN n ELSE cache_size[self]

count_tokens(self, text, model) ==
    LET char_count == Len(text) IN
    (char_count + approx_token_length - 1) \div approx_token_length

\* A batch that answers last text first.
RECURSIVE count_tokens_batch_reversed(_, _, _)
count_tokens_batch_reversed(self, texts, model) ==
    IF texts = <<>> THEN <<>>
    ELSE count_tokens_batch_reversed(self, Tail(texts), model)
             \o <<(Len(Head(texts)) + approx_token_length - 1) \div approx_token_length>>

RECURSIVE count_tokens_batch(_, _, _)
count_tokens_batch(self, texts, model) ==
    IF texts = <<>> THEN <<>>
    ELSE <<count_tokens(self, Head(texts), model)>>
             \o count_tokens_batch(self, Tail(texts), model)

NoBatch == [counter |-> 0, texts |-> <<>>, model |-> "", result |-> <<>>]

\* Counter 1 is SimpleTokenCounter(), counter 2 is SimpleTokenCounter(size).
CounterInit(size) ==
    /\ cache_size = [c \in Counters |-> IF c = 1 THEN DefaultCacheSize ELSE size]
    /\ tc_calls = 0
    /\ tc_log = {}
    /\ tc_batch = NoBatch

\* The models counter c has counted with so far.
ModelsCounted(c) == {e.model : e \in {x \in tc_log : x.counter = c}}

\* A cache that keeps every model it has seen.
get_cache_stats_unbounded(self) ==
    [cached_encodings |-> Cardinality(ModelsCounted(self)),
     max_cache_size |-> cache_size[self]]

get_cache_stats(self) ==
    [cached_encodings |-> 0, max_cache_size |-> cache_size[self]]

\* count = counter.count_tokens(text, model); fresh tells a counter's first
\* use of the model from a repeated one.
CountTokens(c, text, model) ==
    /\ tc_calls < MaxCalls
    /\ tc_calls' = tc_calls + 1
    /\ tc_log' = tc_log \cup
           {[counter |-> c, text |-> text, model |-> model,
             result |-> count_tokens(c, text, model),
             fresh |-> model \notin ModelsCounted(c)]}
    /\ UNCHANGED <<cache_size, tc_batch, notCounter>>

\* counts = counter.count_tokens_batch(texts, model)
CountTokensBatch(c, texts, model) ==
    /\ tc_calls < MaxCalls
    /\ tc_calls' = tc_calls + 1
    /\ tc_batch' = [counter |-> c, texts |-> texts, model |-> model,
                    result |-> count_tokens_batch(c, texts, model)]
    /\ UNCHANGED <<cache_size, tc_log, notCounter>>

CounterNext ==
    \/ \E c \in Counters, t \in Texts, m \in Models : CountTokens(c, t, m)
    \/ \E c \in Counters, ts \in SeqsUpTo(Texts, MaxBatch), m \in Models :
           CountTokensBatch(c, ts, m)

(***************************************************************************)
(* LiteLLMCore                                                             *)
(***************************************************************************)
ModelNames == {"A", "B", "C"}

DuplicateDeploymentError == "DuplicateDeploymentError"

add_deployment(deployment) == TRUE

get_deployment_names == <<>>

route_request(request_data) ==
    [model |-> "default", routing_method |-> "python_fallback"]

is_available == FALSE

\* How many times name occurs in the list names.
Occurrences(names, name) == Cardinality({i \in 1..Len(names) : names[i] = name})

\* No method of the class has a raise statement.
NoError == ""

NoCoreCall == [op |-> "none", name |-> "", result |-> "", raised |-> NoError,
               added_before |-> 0, names |-> <<>>]

CoreInit ==
    /\ rust_enabled = FALSE
    /\ core_added = [n \in ModelNames |-> 0]
    /\ core_last = NoCoreCall

\* core.add_deployment(Deployment(name, ...)), then names = core.get_deployment_names()
AddDeployment(name) ==
    /\ core_added[name] < MaxAdds
    /\ LET r == add_deployment(name) IN
        /\ core_last' = [op |-> "add", name |-> name, result |-> r,
                         raised |-> NoError,
                         added_before |-> core_added[name],
                         names |-> get_deployment_names]
        /\ core_added' = IF r = TRUE
                         THEN [core_added EXCEPT ![name] = @ + 1]
                         ELSE core_added
    /\ UNCHANGED <<rust_enabled, notCore>>

\* core.route_request({"model": name, ...})
RouteRequest(name) ==
    /\ core_last' = [op |-> "route", name |-> name,
                     result |-> route_request(name).model,
                     raised |-> NoError,
                     added_before |-> core_added[name],
                     names |-> get_deployment_names]
    /\ UNCHANGED <<rust_enabled, core_added, notCore>>

CoreNext ==
    \/ \E n \in ModelNames : AddDeployment(n)
    \/ \E n \in ModelNames : RouteRequest(n)

(***************************************************************************)
(* The native TokenCounter (litellm_token, compiled): its encoding cache.   *)
(***************************************************************************)
NativeModels == {"m1", "m2", "m3"}

Range(q) == {q[i] : i \in 1..Len(q)}

RECURSIVE Without(_, _)
Without(q, x) ==
    IF q = <<>> THEN <<>>
    ELSE IF Head(q) = x THEN Without(Tail(q), x)
    ELSE <<Head(q)>> \o Without(Tail(q), x)

\* A hit that leaves the model where it was in the order.
TouchStale(lru, model) == lru

\* A hit makes the model the most recently used.
Touch(lru, model) == Append(Without(lru, model), model)

\* A load into a full cache drops the least recently used model first.
Load(lru, capacity, model) ==
    IF Len(lru) >= capacity
    THEN Append(Tail(lru), model)
    ELSE Append(lru, model)

NoNativeCall == [op |-> "none", model |-> "", hit |-> FALSE, evicted |-> {},
                 cache_before |-> {}, touched_before |-> [m \in NativeModels |-> 0],
                 loaded_before |-> [m \in NativeModels |-> 0]]

NativeCounterInit(capacity) ==
    /\ nc_cache_size = capacity
    /\ nc_lru = <<>>
    /\ nc_clock = 0
    /\ nc_touched = [m \in NativeModels |-> 0]
    /\ nc_loaded = [m \in NativeModels |-> 0]
    /\ nc_last = NoNativeCall

\* count_tokens(text, model): the model's table is used from the cache, or
\* loaded into it.
NativeCountTokens(model) ==
    /\ nc_clock < MaxNativeCalls
    /\ nc_clock' = nc_clock + 1
    /\ LET hit == model \in Range(nc_lru) IN
        /\ nc_lru' = IF hit THEN Touch(nc_lru, model)
                      ELSE Load(nc_lru, nc_cache_size, model)
        /\ nc_loaded' = IF hit THEN nc_loaded
                         ELSE [nc_loaded EXCEPT ![model] = nc_clock']
        /\ nc_last' = [op |-> "count", model |-> model, hit |-> hit,
                       evicted |-> Range(nc_lru) \ Range(nc_lru'),
                       cache_before |-> Range(nc_lru),
                       touched_before |-> nc_touched,
                       loaded_before |-> nc_loaded]
    /\ nc_touched' = [nc_touched EXCEPT ![model] = nc_clock']
    /\ UNCHANGED <<nc_cache_size, notNativeCounter>>

NativeCounterNext == \E m \in NativeModels : NativeCountTokens(m)

(***************************************************************************)
(* The native Router (litellm_core.AdvancedRouter, compiled).              *)
(***************************************************************************)
RouterNames == {"A", "B"}

\* A model name no deployment is registered for.
AbsentName == "Z"

\* litellm_params.model: A and B serve one model.
GroupOf(name) == IF name \in RouterNames THEN "chat" ELSE "none"

\* model_info cost per token.
CostOf(name) == IF name = "A" THEN 1 ELSE 2

RoutingStrategy == {"SimpleShuffle", "LeastBusy", "LatencyBased", "CostBased",
                    "UsageBasedV1", "UsageBasedV2", "LeastBusyWithPenalty"}

NoHealthyDeploymentError == "NoHealthyDeploymentError"

\* A deployment whose cooldown is never looked at.
InCooldownNever(name) == FALSE

\* A deployment that stays in cooldown once it has failed.
InCooldownForever(name) == nr_failed_at[name] >= 0

\* A deployment is in cooldown until its cooldown expires.
InCooldown(name) == nr_now < nr_cooldown_until[name]

\* The registered deployments of model_name's group that are not in cooldown,
\* in insertion order.
Eligible(model_name) ==
    SelectSeq(nr_deployments,
              LAMBDA d : GroupOf(d) = GroupOf(model_name) /\ ~InCooldown(d))

\* LeastBusyWithPenalty: a failure inside the decay period counts as one
\* more busy request.
Penalty(name) ==
    IF /\ nr_failed_at[name] >= 0
       /\ nr_now - nr_failed_at[name] < nr_config.penalty_decay
    THEN 1 ELSE 0

Score(name) ==
    CASE nr_config.strategy = "LeastBusy" -> nr_busy[name]
      [] nr_config.strategy = "LatencyBased" -> nr_latency[name]
      [] nr_config.strategy = "CostBased" -> CostOf(name)
      [] nr_config.strategy = "LeastBusyWithPenalty" -> nr_busy[name] + Penalty(name)
      [] OTHER -> 0

\* The deployments the strategy may pick from the eligible ones: any of them
\* for the random strategies, the first of the lowest score for the others.
Choices(eligible) ==
    IF nr_config.strategy \in {"SimpleShuffle", "UsageBasedV1", "UsageBasedV2"}
    THEN Range(eligible)
    ELSE {eligible[i] : i \in
             {j \in 1..Len(eligible) :
                 /\ \A k \in 1..Len(eligible) : Score(eligible[j]) <= Score(eligible[k])
                 /\ \A k \in 1..(j - 1) : Score(eligible[k]) > Score(eligible[j])}}

NoRouterCall == [op |-> "none", name |-> "", result |-> "", cooling |-> {},
                 registered |-> {}, failed |-> {}]

AddOutcome(name) ==
    IF name \in Range(nr_deployments) THEN DuplicateDeploymentError ELSE "ok"

\* The deployments a failure was ever signaled for.
EverFailed == {d \in RouterNames : nr_failed_at[d] >= 0}

\* The deployments whose last failure signal is less than
\* cooldown_time_seconds old.
RecentlyFailed ==
    {d \in RouterNames :
        /\ nr_failed_at[d] >= 0
        /\ nr_now - nr_failed_at[d] < nr_config.cooldown_time_seconds}

NativeRouterInit(config) ==
    /\ nr_config = config
    /\ nr_deployments = <<>>
    /\ nr_busy = [d \in RouterNames |-> 0]
    /\ nr_latency = [d \in RouterNames |-> 0]
    /\ nr_cooldown_until = [d \in RouterNames |-> 0]
    /\ nr_failed_at = [d \in RouterNames |-> -1]
    /\ nr_now = 0
    /\ nr_last = NoRouterCall

\* router.add_deployment(Deployment(name, ...))
NativeAddDeployment(name) ==
    /\ nr_last' = [op |-> "add", name |-> name, result |-> AddOutcome(name),
                   cooling |-> {}, registered |-> Range(nr_deployments),
                   failed |-> {}]
    /\ nr_deployments' = IF AddOutcome(name) = "ok"
                         THEN Append(nr_deployments, name)
                         ELSE nr_deployments
    /\ UNCHANGED <<nr_config, nr_busy, nr_latency, nr_cooldown_until,
                   nr_failed_at, nr_now, notNativeRouter>>

\* router.route_request(model_name, payload)
NativeRouteRequest(model_name) ==
    /\ SumOver(nr_busy, RouterNames) < MaxInFlight
    /\ LET eligible == Eligible(model_name) IN
       IF eligible = <<>>
       THEN /\ nr_last' = [op |-> "route", name |-> model_name,
                           result |-> NoHealthyDeploymentError,
                           cooling |-> RecentlyFailed,
                           registered |-> Range(nr_deployments),
                           failed |-> EverFailed]
            /\ UNCHANGED nr_busy
       ELSE \E d \in Choices(eligible) :
            /\ nr_last' = [op |-> "route", name |-> model_name, result |-> d,
                           cooling |-> RecentlyFailed,
                           registered |-> Range(nr_deployments),
                           failed |-> EverFailed]
            /\ nr_busy' = [nr_busy EXCEPT ![d] = @ + 1]
    /\ UNCHANGED <<nr_config, nr_deployments, nr_latency, nr_cooldown_until,
                   nr_failed_at, nr_now, notNativeRouter>>

\* The caller reports a request to name as served, with its latency.
ReportSuccess(name, latency) ==
    /\ nr_busy[name] > 0
    /\ nr_busy' = [nr_busy EXCEPT ![name] = @ - 1]
    /\ nr_latency' = [nr_latency EXCEPT ![name] = latency]
    /\ UNCHANGED <<nr_config, nr_deployments, nr_cooldown_until, nr_failed_at,
                   nr_now, nr_last, notNativeRouter>>

\* The caller signals a failure of name: the deployment cools down.
ReportFailure(name) ==
    /\ name \in Range(nr_deployments)
    /\ nr_busy' = [nr_busy EXCEPT ![name] = IF @ > 0 THEN @ - 1 ELSE 0]
    /\ nr_cooldown_until' =
           [nr_cooldown_until EXCEPT ![name] = nr_now + nr_config.cooldown_time_seconds]
    /\ nr_failed_at' = [nr_failed_at EXCEPT ![name] = nr_now]
    /\ UNCHANGED <<nr_config, nr_deployments, nr_latency, nr_now, nr_last,
                   notNativeRouter>>

\* Time passes.
RouterTick ==
    /\ nr_now < MaxRouterTime
    /\ nr_now' = nr_now + 1
    /\ UNCHANGED <<nr_config, nr_deployments, nr_busy, nr_latency,
                   nr_cooldown_until, nr_failed_at, nr_last, notNativeRouter>>

NativeRouterNext ==
    \/ \E n \in RouterNames : NativeAddDeployment(n)
    \/ \E n \in RouterNames \cup {AbsentName} : NativeRouteRequest(n)
    \/ \E n \in RouterNames, l \in 1..MaxLatency : ReportSuccess(n, l)
    \/ \E n \in RouterNames : ReportFailure(n)
    \/ RouterTick

DefaultRouterConfig ==
    [strategy |-> "SimpleShuffle", cooldown_time_seconds |-> 1, penalty_decay |-> 1]

RouterConfigs ==
    [strategy : RoutingStrategy, cooldown_time_seconds : 1..MaxCooldown,
     penalty_decay : {MaxCooldown}]

(***************************************************************************)
(* PerformanceWrapper and AsyncPerformanceWrapper (enhanced_monkeypatch).  *)
(***************************************************************************)
\* What the feature manager holds for a feature when its wrapper is built.
FeatureStates == {"ENABLED", "DISABLED", "other", "missing"}

\* Arguments of a wrapped call.
CallArgs == {"x", "y"}

\* What calling an implementation's own code does.
Outcomes == {"returns", "raises"}

NoResult == [by |-> "nobody", args |-> ""]

\* A wrapper that asks the feature flags on every call, whatever the state.
determine_mode_per_call(feature_state) == "conditional"

\* PerformanceWrapper._determine_mode
determine_mode(feature_state) ==
    IF feature_state = "ENABLED" THEN "rust_direct"
    ELSE IF feature_state = "DISABLED" THEN "python_only"
    ELSE "conditional"

\* enhanced_patch_function: the wrapper class it picks.
WrapperClass(original_async, rust_async) ==
    IF original_async \/ rust_async
    THEN "AsyncPerformanceWrapper"
    ELSE "PerformanceWrapper"

\* func(*args, **kwargs) in PerformanceWrapper, await func(*args, **kwargs) in
\* AsyncPerformanceWrapper: awaiting what a plain function returned is a
\* TypeError, raised after the function has run.
Invoke(class, func_async, outcome) ==
    IF outcome = "raises" THEN "raises"
    ELSE IF class = "AsyncPerformanceWrapper" /\ ~func_async THEN "TypeError"
    ELSE "returns"

\* return self.original_func(*args, **kwargs)
call_original(w, args, original_outcome, seen) ==
    LET r == Invoke(w.class, w.original_async, original_outcome) IN
    [rust_called |-> seen.rust_called, recorded |-> seen.recorded,
     consulted |-> seen.consulted,
     original_called |-> TRUE, original_args |-> args,
     result |-> IF r = "returns" THEN [by |-> "original", args |-> args]
                ELSE NoResult,
     raised |-> IF r = "returns" THEN NoError
                ELSE IF r = "raises" THEN "OriginalError" ELSE "TypeError"]

NothingYet == [rust_called |-> FALSE, recorded |-> 0, consulted |-> FALSE]

\* try: return self.rust_func(...) / except Exception as e: record_error(...);
\* return self.original_func(...)
call_rust_fast(w, args, rust_outcome, original_outcome) ==
    IF Invoke(w.class, w.rust_async, rust_outcome) = "returns"
    THEN [rust_called |-> TRUE, recorded |-> 0, consulted |-> FALSE,
          original_called |-> FALSE, original_args |-> "",
          result |-> [by |-> "rust", args |-> args], raised |-> NoError]
    ELSE call_original(w, args, original_outcome,
                       [rust_called |-> TRUE, recorded |-> 1, consulted |-> FALSE])

\* if not is_enabled(...): return self.original_func(...); otherwise as
\* _call_rust_fast, with the fallback's exception logged and re-raised.
call_conditional(w, args, enabled, rust_outcome, original_outcome) ==
    IF ~enabled
    THEN call_original(w, args, original_outcome,
                       [NothingYet EXCEPT !.consulted = TRUE])
    ELSE [call_rust_fast(w, args, rust_outcome, original_outcome)
             EXCEPT !.consulted = TRUE]

\* PerformanceWrapper.__call__ / AsyncPerformanceWrapper.__call__
wrapper_call(w, args, enabled, rust_outcome, original_outcome) ==
    IF w.mode = "rust_direct"
    THEN call_rust_fast(w, args, rust_outcome, original_outcome)
    ELSE IF w.mode = "python_only"
    THEN call_original(w, args, original_outcome, NothingYet)
    ELSE call_conditional(w, args, enabled, rust_outcome, original_outcome)

NoWrapperCall ==
    [op |-> "none", args |-> "", rust_outcome |-> "", original_outcome |-> "",
     rust_called |-> FALSE, original_called |-> FALSE, original_args |-> "",
     result |-> NoResult, raised |-> NoError, errors_before |-> 0,
     consulted |-> FALSE, enabled |-> FALSE, in_block |-> FALSE]

\* original_state = None
NoSavedState == "None"

\* is_enabled(feature_name, request_id) may answer so while the manager holds
\* this state for the feature: no for a disabled feature, yes for an enabled
\* one, either for a rollout state or a feature the manager does not know.
is_enabled_may(feature_state, answer) ==
    /\ feature_state = "DISABLED" => ~answer
    /\ feature_state = "ENABLED" => answer

\* enhanced_patch_function(module_name, function_name, rust_function, feature_name)
WrapperInit(original_async, rust_async, feature_state) ==
    /\ pw_wrapper = [class |-> WrapperClass(original_async, rust_async),
                     mode |-> determine_mode(feature_state),
                     feature_state |-> feature_state,
                     original_async |-> original_async,
                     rust_async |-> rust_async]
    /\ ff_errors = 0
    /\ ff_state = feature_state
    /\ td_active = FALSE
    /\ td_saved = NoSavedState
    /\ pw_calls = 0
    /\ pw_last = NoWrapperCall

\* A call of the patched function: module.function(args), awaited when the
\* wrapper is an AsyncPerformanceWrapper.
WrapperCall(args, enabled, rust_outcome, original_outcome) ==
    /\ pw_calls < MaxWrapperCalls
    /\ is_enabled_may(ff_state, enabled)
    /\ pw_calls' = pw_calls + 1
    /\ LET r == wrapper_call(pw_wrapper, args, enabled, rust_outcome, original_outcome) IN
        /\ ff_errors' = ff_errors + r.recorded
        /\ pw_last' = [op |-> "call", args |-> args,
                       rust_outcome |-> IF r.rust_called THEN rust_outcome ELSE "",
                       original_outcome |->
                           IF r.original_called THEN original_outcome ELSE "",
                       rust_called |-> r.rust_called,
                       original_called |-> r.original_called,
                       original_args |-> r.original_args,
                       result |-> r.result, raised |-> r.raised,
                       errors_before |-> ff_errors,
                       consulted |-> r.consulted,
                       enabled |-> r.consulted /\ enabled,
                       in_block |-> td_active]
    /\ UNCHANGED <<pw_wrapper, ff_state, td_active, td_saved, notWrapper>>

\* with temporary_disable_feature(feature_name): the block is entered; a
\* feature the manager knows has its state saved and set to DISABLED.
EnterTemporaryDisable ==
    /\ ~td_active
    /\ td_active' = TRUE
    /\ IF ff_state # "missing"
       THEN td_saved' = ff_state /\ ff_state' = "DISABLED"
       ELSE UNCHANGED <<td_saved, ff_state>>
    /\ UNCHANGED <<pw_wrapper, ff_errors, pw_calls, pw_last, notWrapper>>

\* The block is left: finally restores the saved state.
ExitTemporaryDisable ==
    /\ td_active
    /\ td_active' = FALSE
    /\ td_saved' = NoSavedState
    /\ ff_state' = IF td_saved # NoSavedState THEN td_saved ELSE ff_state
    /\ UNCHANGED <<pw_wrapper, ff_errors, pw_calls, pw_last, notWrapper>>

WrapperNext ==
    \/ \E a \in CallArgs, e \in BOOLEAN, ro \in Outcomes, oo \in Outcomes :
           WrapperCall(a, e, ro, oo)
    \/ EnterTemporaryDisable
    \/ ExitTemporaryDisable

\* The function the test suites patch: plain functions, feature not configured.
DefaultWrapperInit == WrapperInit(FALSE, FALSE, "missing")

(***************************************************************************)
(* apply_acceleration / remove_acceleration (litellm_rust.monkeypatch) and *)
(* enhanced_apply_acceleration / remove_enhanced_acceleration              *)
(* (fast_litellm.enhanced_monkeypatch).                                    *)
(***************************************************************************)
Patchers == {"monkeypatch", "enhanced_monkeypatch"}

\* Qualified names both modules patch: one LiteLLM has, one it may not have.
Attrs == {"litellm.router.Router", "litellm.SimpleRateLimiter"}

Absent == "absent"
Original == "original"

\* No entry in the registry under this name.
NoOriginal == "none"

\* setattr(module, name, rust_class) / setattr(module, name, wrapper)
PatchedValue(patcher) ==
    IF patcher = "monkeypatch" THEN "rust" ELSE "wrapper"

\* if hasattr(module, name): the registry takes what the attribute holds now.
Stores(value) == value # Absent

\* _patch_class sets the attribute in any case, enhanced_patch_class only
\* inside the hasattr branch.
Patches(patcher, value) == patcher = "monkeypatch" \/ value # Absent

\* rust_extensions_module.RUST_ACCELERATION_AVAILABLE: True, False, or the
\* module has no such attribute.
Flags == {"True", "False", "missing"}

\* The availability test read as "anything but False".
AvailableUnlessFalse(flag) == flag # "False"

\* not (not hasattr(module, "RUST_ACCELERATION_AVAILABLE")
\*      or not module.RUST_ACCELERATION_AVAILABLE)
Available(flag) == flag = "True"

\* A patch function that reports success for any importable module.
enhanced_patch_any(importable, value) == importable

\* enhanced_patch_function / enhanced_patch_class: True inside the hasattr
\* branch, False outside it and on ImportError.
enhanced_patch(importable, value) == importable /\ value # Absent

PatchInit(first) ==
    /\ mp_attr = first
    /\ original_classes = [p \in Patchers |-> [a \in Attrs |-> NoOriginal]]
    /\ rust_implementations = {}
    /\ patched_functions = {}
    /\ mp_first = first
    /\ mp_replaced = [p \in Patchers |-> {}]
    /\ mp_applies = 0
    /\ mp_last = [op |-> "none", patcher |-> "", flag |-> "", result |-> FALSE]

\* apply_acceleration(rust_extensions_module), where the module's flag is as
\* given and the names in offered are the ones whose patch is attempted.
\* Returns success_count > 0.
ApplyAcceleration(patcher, flag, offered) ==
    /\ mp_applies < MaxApplies
    /\ mp_applies' = mp_applies + 1
    /\ LET tried == IF Available(flag) THEN offered ELSE {}
           stored == {a \in tried : Stores(mp_attr[patcher][a])}
           patched == {a \in tried : Patches(patcher, mp_attr[patcher][a])}
       IN /\ original_classes' = [original_classes EXCEPT ![patcher] =
                 [a \in Attrs |-> IF a \in stored THEN mp_attr[patcher][a] ELSE @[a]]]
          /\ mp_attr' = [mp_attr EXCEPT ![patcher] =
                 [a \in Attrs |-> IF a \in patched THEN PatchedValue(patcher)
                                  ELSE @[a]]]
          /\ mp_replaced' = [mp_replaced EXCEPT ![patcher] = @ \cup stored]
          /\ IF patcher = "enhanced_monkeypatch"
             THEN /\ rust_implementations' = rust_implementations \cup stored
                  /\ patched_functions' = patched_functions \cup stored
             ELSE UNCHANGED <<rust_implementations, patched_functions>>
          /\ mp_last' = [op |-> "apply", patcher |-> patcher, flag |-> flag,
                         result |-> patched # {}]
    /\ UNCHANGED <<mp_first, notPatch>>

\* enhanced_patch_function(module, name, rust, feature) /
\* enhanced_patch_class(...) called for one name, the module importable or not.
EnhancedPatch(a, importable) ==
    LET patcher == "enhanced_monkeypatch"
        ok == enhanced_patch(importable, mp_attr[patcher][a])
    IN
    /\ mp_applies < MaxApplies
    /\ mp_applies' = mp_applies + 1
    /\ IF ok
       THEN /\ original_classes' =
                   [original_classes EXCEPT ![patcher][a] = mp_attr[patcher][a]]
            /\ rust_implementations' = rust_implementations \cup {a}
            /\ patched_functions' = patched_functions \cup {a}
            /\ mp_attr' = [mp_attr EXCEPT ![patcher][a] = PatchedValue(patcher)]
            /\ mp_replaced' = [mp_replaced EXCEPT ![patcher] = @ \cup {a}]
       ELSE UNCHANGED <<original_classes, rust_implementations, patched_functions,
                        mp_attr, mp_replaced>>
    /\ mp_last' = [op |-> "patch", patcher |-> patcher, flag |-> "", result |-> ok]
    /\ UNCHANGED <<mp_first, notPatch>>

\* remove_acceleration(): every registry entry is written back, then the
\* registry is cleared.
RemoveAcceleration(patcher) ==
    /\ mp_attr' = [mp_attr EXCEPT ![patcher] =
           [a \in Attrs |-> IF original_classes[patcher][a] # NoOriginal
                            THEN original_classes[patcher][a]
                            ELSE @[a]]]
    /\ original_classes' = [original_classes EXCEPT ![patcher] =
           [a \in Attrs |-> NoOriginal]]
    /\ IF patcher = "enhanced_monkeypatch"
       THEN rust_implementations' = {} /\ patched_functions' = {}
       ELSE UNCHANGED <<rust_implementations, patched_functions>>
    /\ mp_last' = [op |-> "remove", patcher |-> patcher, flag |-> "",
                   result |-> FALSE]
    /\ UNCHANGED <<mp_first, mp_replaced, mp_applies, notPatch>>

PatchNext ==
    \/ \E p \in Patchers, flag \in Flags, offered \in SUBSET Attrs :
           ApplyAcceleration(p, flag, offered)
    \/ \E a \in Attrs, importable \in BOOLEAN : EnhancedPatch(a, importable)
    \/ \E p \in Patchers : RemoveAcceleration(p)

\* LiteLLM as installed: it has a Router and no SimpleRateLimiter.
DefaultPatchInit ==
    PatchInit([p \in Patchers |->
                  [a \in Attrs |-> IF a = "litellm.router.Router"
                                   THEN Original ELSE Absent]])

(***************************************************************************)
(* diagnostics.health_check                                                *)
(***************************************************************************)
\* The health-check entry points health_check() looks for, by component.
Checks == {"health_check", "advanced_router_health_check", "token_health_check",
           "connection_pool_health_check", "rate_limit_health_check"}

\* What an entry point does: returns True, returns False, raises, or is
\* not there (hasattr is False).
CheckOutcomes == {"True", "False", "raises", "missing"}

Components == {"core", "token", "connection_pool", "rate_limiter"}

\* The keys health_check() may set in a component's dict.
ResultKeys == {"core_healthy", "router_healthy", "token_healthy",
               "connection_pool_healthy", "rate_limiter_healthy",
               "error", "router_error"}

NotSet == "not set"

\* str(e)
ErrorString == "str(e)"

EmptyDict == [k \in ResultKeys |-> NotSet]

\* A check whose exception nothing catches.
run_check_uncaught(d, outcome, healthy_key, error_key) ==
    IF outcome = "missing" THEN [dict |-> d, raised |-> NoError]
    ELSE IF outcome = "raises" THEN [dict |-> d, raised |-> "Exception"]
    ELSE [dict |-> [d EXCEPT ![healthy_key] = outcome], raised |-> NoError]

\* if hasattr(module, name): try: d[healthy_key] = module.name()
\* except Exception as e: d[healthy_key] = False; d[error_key] = str(e)
run_check(d, outcome, healthy_key, error_key) ==
    IF outcome = "missing" THEN [dict |-> d, raised |-> NoError]
    ELSE IF outcome = "raises"
    THEN [dict |-> [d EXCEPT ![healthy_key] = "False", ![error_key] = ErrorString],
          raised |-> NoError]
    ELSE [dict |-> [d EXCEPT ![healthy_key] = outcome], raised |-> NoError]

\* component.get("healthy", False) or component.get("core_healthy", False) or ...
ComponentHealthy(d) ==
    \E k \in {"core_healthy", "token_healthy", "connection_pool_healthy",
               "rate_limiter_healthy"} : d[k] = "True"

\* The first exception among the steps, in program order: it ends the call.
FirstRaised(steps) ==
    IF \E i \in 1..Len(steps) : steps[i].raised # NoError
    THEN steps[CHOOSE i \in 1..Len(steps) :
                  /\ steps[i].raised # NoError
                  /\ \A j \in 1..(i - 1) : steps[j].raised = NoError].raised
    ELSE NoError

NoResults == [rust_acceleration_available |-> FALSE,
              components |-> [c \in {} |-> EmptyDict],
              error |-> NotSet, overall_healthy |-> NotSet]

health_check(available, outcome) ==
    IF ~available
    THEN [raised |-> NoError,
          results |-> [NoResults EXCEPT
                          !.error = "Rust acceleration is not available"]]
    ELSE
    LET core1 == run_check(EmptyDict, outcome["health_check"], "core_healthy", "error")
        core2 == run_check(core1.dict, outcome["advanced_router_health_check"],
                           "router_healthy", "router_error")
        token == run_check(EmptyDict, outcome["token_health_check"],
                           "token_healthy", "error")
        pool == run_check(EmptyDict, outcome["connection_pool_health_check"],
                          "connection_pool_healthy", "error")
        limiter == run_check(EmptyDict, outcome["rate_limit_health_check"],
                             "rate_limiter_healthy", "error")
        raised == FirstRaised(<<core1, core2, token, pool, limiter>>)
        components == [c \in Components |->
                          IF c = "core" THEN core2.dict
                          ELSE IF c = "token" THEN token.dict
                          ELSE IF c = "connection_pool" THEN pool.dict
                          ELSE limiter.dict]
    IN IF raised # NoError
       THEN [raised |-> raised, results |-> NoResults]
       ELSE [raised |-> NoError,
             results |-> [rust_acceleration_available |-> TRUE,
                          components |-> components,
                          error |-> NotSet,
                          overall_healthy |->
                              IF \A c \in Components : ComponentHealthy(components[c])
                              THEN "True" ELSE "False"]]

\* The components get_performance_stats() reports on.
StatsComponents == {"core", "token", "rate_limiter"}

\* get_performance_stats(), as far as the flag decides it: what the
\* components' own statistics hold is left out.
get_performance_stats(available) ==
    IF ~available
    THEN [NoResults EXCEPT !.error = "Rust acceleration is not available"]
    ELSE [NoResults EXCEPT !.rust_acceleration_available = TRUE,
                           !.components = [c \in StatsComponents |-> EmptyDict]]

NoHealthCall == [op |-> "none", available |-> FALSE, flag |-> FALSE,
                 outcome |-> [c \in Checks |-> "missing"],
                 raised |-> NoError, results |-> NoResults]

\* from .rust_extensions import RUST_ACCELERATION_AVAILABLE: diagnostics binds
\* its own name to the value the flag has when diagnostics is imported.
DiagnosticsInit(flag) ==
    /\ RUST_ACCELERATION_AVAILABLE = flag
    /\ diagnostics_available = flag
    /\ hc_calls = 0
    /\ hc_last = NoHealthCall

\* The extension modules imported: rust_extensions set the flag to True.
HealthInit == DiagnosticsInit(TRUE)

\* rust_extensions.RUST_ACCELERATION_AVAILABLE is assigned (the tests patch it).
SetFlag(flag) ==
    /\ flag # RUST_ACCELERATION_AVAILABLE
    /\ RUST_ACCELERATION_AVAILABLE' = flag
    /\ UNCHANGED <<diagnostics_available, hc_calls, hc_last, notHealth>>

\* result = health_check(); while the flag diagnostics reads is False no
\* entry point is looked for.
HealthCheck(outcome) ==
    /\ hc_calls < MaxHealthChecks
    /\ diagnostics_available \/ \A c \in Checks : outcome[c] = "missing"
    /\ hc_calls' = hc_calls + 1
    /\ LET r == health_check(diagnostics_available, outcome) IN
        hc_last' = [op |-> "health_check", available |-> diagnostics_available,
                    flag |-> RUST_ACCELERATION_AVAILABLE,
                    outcome |-> outcome, raised |-> r.raised, results |-> r.results]
    /\ UNCHANGED <<RUST_ACCELERATION_AVAILABLE, diagnostics_available, notHealth>>

\* stats = get_performance_stats()
GetPerformanceStats ==
    /\ hc_calls < MaxHealthChecks
    /\ hc_calls' = hc_calls + 1
    /\ hc_last' = [op |-> "get_performance_stats",
                   available |-> diagnostics_available,
                   flag |-> RUST_ACCELERATION_AVAILABLE,
                   outcome |-> [c \in Checks |-> "missing"],
                   raised |-> NoError,
                   results |-> get_performance_stats(diagnostics_available)]
    /\ UNCHANGED <<RUST_ACCELERATION_AVAILABLE, diagnostics_available, notHealth>>

HealthNext ==
    \/ \E outcome \in [Checks -> CheckOutcomes] : HealthCheck(outcome)
    \/ GetPerformanceStats

\* The flag changing between calls, every entry point there and returning.
FlagNext ==
    \/ \E flag \in BOOLEAN : SetFlag(flag)
    \/ \E outcome \in [Checks -> {"True", "False"}] : HealthCheck(outcome)
    \/ GetPerformanceStats

(***************************************************************************)
(* litellm_rust_accelerator: enable_rust_acceleration and the globals it   *)
(* keeps.                                                                  *)
(***************************************************************************)
\* os.getenv("LITELLM_RUST_ACCELERATION", "auto").lower(); any other value
\* is treated as "auto".
EnvSettings == {"auto", "enabled", "disabled"}

\* The keys of the _RUST_COMPONENTS dict.
RustComponents == {"core", "token", "connection_pool", "rate_limiter"}

\* _RUST_COMPONENTS = None
NoComponents == {}

\* What an attempt to load the extension modules meets: the imports succeed,
\* fail with ImportError or with another exception, and, when they succeed,
\* the components whose health check answers true.
LoadOutcomes ==
    [imports : {"ok"}, healthy : SUBSET RustComponents]
        \cup [imports : {"ImportError", "Exception"}, healthy : {{}}]

\* The extension is not installed.
NotInstalled == [imports |-> "ImportError", healthy |-> {}]

\* A loader that takes the modules as they import, unverified.
try_import_unverified(g, load) ==
    IF load.imports = "ok"
    THEN [ok |-> TRUE,
          globals |-> [g EXCEPT !.RUST_COMPONENTS = RustComponents,
                                !.RUST_AVAILABLE = TRUE]]
    ELSE [ok |-> FALSE, globals |-> g]

\* _try_import_rust_components()
try_import_rust_components(g, load) ==
    IF load.imports = "ok" /\ load.healthy = RustComponents
    THEN [ok |-> TRUE,
          globals |-> [g EXCEPT !.RUST_COMPONENTS = RustComponents,
                                !.RUST_AVAILABLE = TRUE]]
    ELSE [ok |-> FALSE, globals |-> g]

\* enable_rust_acceleration(enabled) on the globals g, with the environment
\* setting and what a load attempt would meet: the new globals and the
\* value returned.
enable_rust_acceleration(g, enabled, env_setting, load) ==
    IF env_setting = "disabled"
    THEN [globals |-> [g EXCEPT !.ACCELERATION_ENABLED = FALSE], result |-> FALSE,
          loaded |-> FALSE]
    ELSE
    LET wanted == IF env_setting = "enabled" THEN TRUE ELSE enabled
        try == wanted /\ ~g.RUST_AVAILABLE
        r == IF try THEN try_import_rust_components(g, load)
             ELSE [ok |-> TRUE, globals |-> g]
    IN IF ~r.ok
       THEN [globals |-> r.globals, result |-> env_setting # "enabled",
             loaded |-> FALSE]
       ELSE [globals |-> [r.globals EXCEPT !.ACCELERATION_ENABLED =
                                               wanted /\ r.globals.RUST_AVAILABLE],
             result |-> TRUE, loaded |-> try]

\* The module's globals as first assigned.
InitialGlobals ==
    [RUST_AVAILABLE |-> FALSE, RUST_COMPONENTS |-> NoComponents,
     ACCELERATION_ENABLED |-> FALSE]

Globals ==
    [RUST_AVAILABLE |-> RUST_AVAILABLE, RUST_COMPONENTS |-> RUST_COMPONENTS,
     ACCELERATION_ENABLED |-> ACCELERATION_ENABLED]

is_rust_acceleration_available == RUST_AVAILABLE /\ ACCELERATION_ENABLED

get_rust_components ==
    IF is_rust_acceleration_available THEN RUST_COMPONENTS ELSE NoComponents

\* import litellm_rust_accelerator: the globals are set, then
\* enable_rust_acceleration(True) runs unless the environment says disabled.
AcceleratorInit(env_setting, load) ==
    LET r == IF env_setting # "disabled"
             THEN enable_rust_acceleration(InitialGlobals, TRUE, env_setting, load)
             ELSE [globals |-> InitialGlobals, result |-> FALSE, loaded |-> FALSE]
    IN /\ RUST_AVAILABLE = r.globals.RUST_AVAILABLE
       /\ RUST_COMPONENTS = r.globals.RUST_COMPONENTS
       /\ ACCELERATION_ENABLED = r.globals.ACCELERATION_ENABLED
       /\ ea_calls = 0
       /\ ea_last = [op |-> "import", enabled |-> TRUE, env_setting |-> env_setting,
                     load |-> load, loaded |-> r.loaded, result |-> r.result]

EnableRustAcceleration(enabled, env_setting, load) ==
    /\ ea_calls < MaxEnableCalls
    /\ ea_calls' = ea_calls + 1
    /\ LET r == enable_rust_acceleration(Globals, enabled, env_setting, load) IN
        /\ RUST_AVAILABLE' = r.globals.RUST_AVAILABLE
        /\ RUST_COMPONENTS' = r.globals.RUST_COMPONENTS
        /\ ACCELERATION_ENABLED' = r.globals.ACCELERATION_ENABLED
        /\ ea_last' = [op |-> "enable", enabled |-> enabled,
                       env_setting |-> env_setting, load |-> load,
                       loaded |-> r.loaded, result |-> r.result]
    /\ UNCHANGED notAccelerator

AcceleratorNext ==
    \E enabled \in BOOLEAN, env_setting \in EnvSettings, load \in LoadOutcomes :
        EnableRustAcceleration(enabled, env_setting, load)

\* Imported where the extension is not installed, nothing set in the environment.
DefaultAcceleratorInit == AcceleratorInit("auto", NotInstalled)

(***************************************************************************)
(* Specifications: one component at work, the others as constructed.       *)
(***************************************************************************)
InitPool ==
    /\ \E capacity \in 1..MaxCapacity : PoolInit(capacity)
    /\ LimiterInit /\ CounterInit(DefaultCacheSize) /\ CoreInit
    /\ NativeCounterInit(DefaultCacheSize) /\ NativeRouterInit(DefaultRouterConfig)
    /\ GuardInit(TestLimit, TestWindow)
    /\ DefaultWrapperInit /\ DefaultPatchInit /\ HealthInit
    /\ DefaultAcceleratorInit

SpecPool == InitPool /\ [][PoolNext]_vars

InitLimiter ==
    /\ LimiterInit
    /\ PoolInit(DefaultMaxConnections) /\ CounterInit(DefaultCacheSize) /\ CoreInit
    /\ NativeCounterInit(DefaultCacheSize) /\ NativeRouterInit(DefaultRouterConfig)
    /\ GuardInit(TestLimit, TestWindow)
    /\ DefaultWrapperInit /\ DefaultPatchInit /\ HealthInit
    /\ DefaultAcceleratorInit

SpecLimiter == InitLimiter /\ [][LimiterNext]_vars

InitGuardedLimiter ==
    /\ LimiterInit
    /\ \E limit \in 1..MaxLimit, window \in 1..MaxWindow : GuardInit(limit, window)
    /\ PoolInit(DefaultMaxConnections) /\ CounterInit(DefaultCacheSize) /\ CoreInit
    /\ NativeCounterInit(DefaultCacheSize) /\ NativeRouterInit(DefaultRouterConfig)
    /\ DefaultWrapperInit /\ DefaultPatchInit /\ HealthInit
    /\ DefaultAcceleratorInit

SpecGuardedLimiter == InitGuardedLimiter /\ [][GuardedNext]_vars

InitCounter ==
    /\ \E size \in 0..MaxCacheSize : CounterInit(size)
    /\ PoolInit(DefaultMaxConnections) /\ LimiterInit /\ CoreInit
    /\ NativeCounterInit(DefaultCacheSize) /\ NativeRouterInit(DefaultRouterConfig)
    /\ GuardInit(TestLimit, TestWindow)
    /\ DefaultWrapperInit /\ DefaultPatchInit /\ HealthInit
    /\ DefaultAcceleratorInit

SpecCounter == InitCounter /\ [][CounterNext]_vars

InitCore ==
    /\ CoreInit
    /\ PoolInit(DefaultMaxConnections) /\ LimiterInit /\ CounterInit(DefaultCacheSize)
    /\ NativeCounterInit(DefaultCacheSize) /\ NativeRouterInit(DefaultRouterConfig)
    /\ GuardInit(TestLimit, TestWindow)
    /\ DefaultWrapperInit /\ DefaultPatchInit /\ HealthInit
    /\ DefaultAcceleratorInit

SpecCore == InitCore /\ [][CoreNext]_vars

InitNativeCounter ==
    /\ \E capacity \in 1..MaxNativeCache : NativeCounterInit(capacity)
    /\ PoolInit(DefaultMaxConnections) /\ LimiterInit
    /\ CounterInit(DefaultCacheSize) /\ CoreInit
    /\ NativeRouterInit(DefaultRouterConfig)
    /\ GuardInit(TestLimit, TestWindow)
    /\ DefaultWrapperInit /\ DefaultPatchInit /\ HealthInit
    /\ DefaultAcceleratorInit

SpecNativeCounter == InitNativeCounter /\ [][NativeCounterNext]_vars

InitNativeRouter ==
    /\ \E config \in RouterConfigs : NativeRouterInit(config)
    /\ PoolInit(DefaultMaxConnections) /\ LimiterInit
    /\ CounterInit(DefaultCacheSize) /\ CoreInit
    /\ NativeCounterInit(DefaultCacheSize)
    /\ GuardInit(TestLimit, TestWindow)
    /\ DefaultWrapperInit /\ DefaultPatchInit /\ HealthInit
    /\ DefaultAcceleratorInit

SpecNativeRouter == InitNativeRouter /\ [][NativeRouterNext]_vars

(***************************************************************************)
(* Connection pool claims.                                                 *)
(***************************************************************************)

\* C1: get_connection(p) fails with PoolExhaustedError exactly when p has no
\* available handle and its in-use count equals max_connections_per_provider,
\* and returns a handle otherwise (max=2: the third checkout in a row fails).
C1_ExhaustedExactlyAtCapacity ==
    pool_last.op = "get" =>
        /\ (pool_last.result = PoolExhaustedError) <=>
               (/\ pool_last.available_before = {}
                /\ pool_last.in_use_before = max_connections_per_provider)
        /\ pool_last.result # PoolExhaustedError => pool_last.result \in HandleIds

\* C5: for every provider the available and the in-use handles are disjoint
\* and available plus in-use never exceeds max_connections_per_provider.
C5_DisjointAndBounded ==
    \A p \in Providers :
        /\ AvailableOf(p) \cap {h \in HandleIds : pool_in_use[h] > 0} = {}
        /\ Cardinality(AvailableOf(p)) + InUseCount(p) <= max_connections_per_provider

\* C6: get_connection never returns a handle id that is in use at that moment:
\* no two callers hold the same handle id at once.
C6_NoDoubleIssue ==
    /\ pool_last.op = "get" /\ pool_last.result \in HandleIds
           => pool_last.held_before = 0
    /\ \A h \in HandleIds : pool_in_use[h] <= 1

C15_ReturnOnlyInUse ==
    pool_last.op = "return" =>
        /\ (pool_last.result = TRUE) <=> (pool_last.held_before > 0)
        /\ IF pool_last.result = TRUE
           THEN /\ pool_last.arg \in pool_available
                /\ pool_in_use[pool_last.arg] = pool_last.held_before - 1
           ELSE /\ pool_in_use[pool_last.arg] = pool_last.held_before
                /\ (pool_last.arg \in pool_available)
                       <=> (pool_last.arg \in pool_last.available_before)

\* C16: close_connection(h) returns true exactly when h is a handle the pool
\* issued and has not closed, and then h is neither available nor in use;
\* return_connection and close_connection of a closed handle return false.
C16_ClosePermanent ==
    /\ pool_last.op = "close" =>
           /\ (pool_last.result = TRUE) <=>
                  (pool_last.arg \in pool_last.issued_before \ pool_last.closed_before)
           /\ pool_last.result = TRUE =>
                  /\ pool_last.arg \notin pool_available
                  /\ pool_in_use[pool_last.arg] = 0
    /\ pool_last.op \in {"return", "close"} /\ pool_last.arg \in pool_last.closed_before
           => pool_last.result = FALSE

\* What the callers of provider q hold and have given back.
Bookkeeping(q) ==
    [in_use |-> [h \in {x \in HandleIds : ProviderOf(x) = q} |-> pool_in_use[h]],
     available |-> AvailableOf(q)]

\* C26: a get_connection, return_connection or close_connection for provider
\* p leaves the in-use and the available handles of every other provider q as
\* they were, and get_connection(q) does not fail while q itself has room,
\* however many of p's handles are in use.
C26_ProvidersIndependent ==
    /\ []((/\ pool_last.op = "get"
           /\ pool_last.in_use_before < max_connections_per_provider)
          => pool_last.result = ConnectionId(pool_last.arg))
    /\ [][\A p \in Providers : \A q \in Providers \ {p} :
             (\/ GetConnection(p)
              \/ ReturnConnection(ConnectionId(p))
              \/ CloseConnection(ConnectionId(p)))
             => Bookkeeping(q)' = Bookkeeping(q)]_vars

\* C26 witness: provider p has as many checkouts in use as the maximum
\* allows, and the get_connection for q that follows is served q's handle.
C26_Witness ==
    /\ pool_last.op = "get" /\ pool_last.arg = "q"
    /\ pool_last.result = ConnectionId("q")
    /\ pool_last.in_use_before = 0
    /\ InUseCount("p") >= max_connections_per_provider

(***************************************************************************)
(* Rate limiter claims.                                                    *)
(***************************************************************************)

\* C12: check_rate_limit(key, limit, window_seconds) returns true exactly when
\* the units recorded for key within the trailing window, plus one, do not
\* exceed limit; for a key with nothing on record it returns true.
C12_TrueIffRoomForOne ==
    rl_last.op = "check" =>
        /\ (rl_last.result = TRUE) <=> (rl_last.in_window + 1 <= rl_last.limit)
        /\ rl_last.ever = 0 => rl_last.result = TRUE

\* C3: check_rate_limit at time T counts only the consumption recorded for the
\* key within (T - window, T]: with limit units consumed inside the window it
\* reports "at limit" (false), and once all consumption is older than the
\* window it reports "under limit" (true) again.
C3_SlidingWindow ==
    rl_last.op = "check" =>
        /\ rl_last.in_window >= rl_last.limit => rl_last.result = FALSE
        /\ rl_last.in_window = 0 => rl_last.result = TRUE

\* C13: when every thread consumes one unit for a key only after its own
\* check_rate_limit(key, limit, w) returned true, the units consumed for a key
\* within any interval of length w never exceed limit, however the threads'
\* checks and consumes interleave and wherever the interval starts.
C13_NeverOverLimit ==
    \A k \in Keys, T \in Times :
        UnitsInWindow(k, T, rl_policy.window) <= rl_policy.limit

(***************************************************************************)
(* Token counter claims.                                                   *)
(***************************************************************************)

\* C4: after any sequence of count_tokens and count_tokens_batch calls over
\* any models, get_cache_stats reports cached_encodings <= max_cache_size, the
\* configured cache_size.
C4_CacheWithinCapacity ==
    \A c \in Counters :
        /\ get_cache_stats(c).max_cache_size = cache_size[c]
        /\ get_cache_stats(c).cached_encodings <= cache_size[c]

\* C4 witness: a counter has counted with more models than its cache_size.
C4_Witness ==
    \E c \in Counters : Cardinality(ModelsCounted(c)) > cache_size[c]

\* C7: count_tokens is a function of (text, model) alone: any two counts on
\* record for the same text and model agree, whichever counter made them, with
\* whatever cache_size, on the first or on a repeated use of the model.
C7_Deterministic ==
    \A a \in tc_log, b \in tc_log :
        a.text = b.text /\ a.model = b.model => a.result = b.result

\* C7 witness: the same text and model counted by two counters of different
\* cache_size, once on a model's first use and once on a repeated use.
C7_Witness ==
    \E a \in tc_log, b \in tc_log :
        /\ a.text = b.text /\ a.model = b.model /\ a.result > 1
        /\ cache_size[a.counter] # cache_size[b.counter]
        /\ a.fresh /\ ~b.fresh

\* C8: count_tokens_batch(texts, model) is the list of count_tokens(t, model)
\* over texts: same length, same order, the empty list for the empty list.
C8_BatchEquivalence ==
    tc_batch.counter \in Counters =>
        /\ Len(tc_batch.result) = Len(tc_batch.texts)
        /\ \A i \in 1..Len(tc_batch.texts) :
               tc_batch.result[i] =
                   count_tokens(tc_batch.counter, tc_batch.texts[i], tc_batch.model)

\* C8 witness: a batch of two texts whose counts differ, so order shows.
C8_Witness ==
    /\ tc_batch.counter \in Counters
    /\ Len(tc_batch.texts) = 2
    /\ tc_batch.result[1] # tc_batch.result[2]

\* C9: a count_tokens call for a model that is not cached, made while the
\* cache holds cache_size models, evicts exactly one model, the one least
\* recently counted with (hit or load), and caches the new one; no other call
\* evicts anything.
C9_EvictsLeastRecentlyUsed ==
    nc_last.op = "count" =>
        IF ~nc_last.hit /\ Cardinality(nc_last.cache_before) = nc_cache_size
        THEN \E v \in nc_last.cache_before :
                /\ nc_last.evicted = {v}
                /\ \A u \in nc_last.cache_before :
                       nc_last.touched_before[v] <= nc_last.touched_before[u]
                /\ Range(nc_lru) = (nc_last.cache_before \ {v}) \cup {nc_last.model}
        ELSE /\ nc_last.evicted = {}
             /\ Range(nc_lru) = nc_last.cache_before \cup {nc_last.model}

\* C9 witness: an eviction that spares a model loaded before the evicted one,
\* because that model was counted with again in between.
C9_Witness ==
    /\ nc_last.op = "count" /\ ~nc_last.hit
    /\ \E v \in nc_last.evicted, u \in nc_last.cache_before \ nc_last.evicted :
           /\ nc_last.loaded_before[u] < nc_last.loaded_before[v]
           /\ nc_last.touched_before[u] > nc_last.touched_before[v]

(***************************************************************************)
(* Router claims.                                                          *)
(***************************************************************************)

\* C2: once a failure is signaled for a deployment, no route_request issued
\* before cooldown_time_seconds have elapsed since the signal returns it,
\* whatever the routing strategy.
C2_CooldownExcluded ==
    nr_last.op = "route" => nr_last.result \notin nr_last.cooling

\* C2 witness: with A and B registered and A's failure less than
\* cooldown_time_seconds old, a request for A's model is routed to B.
C2_Witness ==
    /\ nr_last.op = "route" /\ nr_last.name = "A" /\ nr_last.result = "B"
    /\ "A" \in nr_last.cooling

\* C17: a deployment whose last failure signal is at least
\* cooldown_time_seconds old is eligible again, and a route_request to a
\* router whose only deployment is such a deployment returns it instead of
\* failing with NoHealthyDeploymentError.
C17_CooldownExpires ==
    /\ \A d \in Range(nr_deployments) :
           /\ nr_failed_at[d] >= 0
           /\ nr_now - nr_failed_at[d] >= nr_config.cooldown_time_seconds
           => d \in Range(Eligible(d))
    /\ /\ nr_last.op = "route" /\ nr_last.name \in RouterNames
       /\ Cardinality(nr_last.registered) = 1
       /\ nr_last.registered \subseteq nr_last.failed \ nr_last.cooling
       => nr_last.result \in nr_last.registered

\* C17 witness: A is the only deployment, a failure was signaled for it, the
\* cooldown has elapsed, and a request for A is routed to A.
C17_Witness ==
    /\ nr_last.op = "route" /\ nr_last.name = "A" /\ nr_last.result = "A"
    /\ nr_last.registered = {"A"}
    /\ "A" \in nr_last.failed \ nr_last.cooling

\* C11: route_request for a model name returns a deployment registered under
\* that name when there is one, and fails with NoHealthyDeploymentError when
\* there is none; it never returns a deployment that was not registered.
C11_RegisteredOrUnavailable ==
    core_last.op = "route" =>
        /\ IF core_last.added_before > 0
           THEN core_last.raised = NoError /\ core_last.result = core_last.name
           ELSE core_last.raised = NoHealthyDeploymentError
        /\ core_last.raised = NoError =>
               core_last.result \in {n \in ModelNames : core_added[n] > 0}

\* C10: add_deployment with a model_name that is already registered fails
\* with DuplicateDeploymentError, and get_deployment_names still lists that
\* name exactly once.
C10_DuplicateRejected ==
    core_last.op = "add" /\ core_last.added_before > 0 =>
        /\ core_last.raised = DuplicateDeploymentError
        /\ Occurrences(core_last.names, core_last.name) = 1

(***************************************************************************)
(* Wrapper claims.                                                         *)
(***************************************************************************)
InitWrapper ==
    /\ \E oa \in BOOLEAN, ra \in BOOLEAN, st \in FeatureStates : WrapperInit(oa, ra, st)
    /\ PoolInit(DefaultMaxConnections) /\ LimiterInit
    /\ CounterInit(DefaultCacheSize) /\ CoreInit
    /\ NativeCounterInit(DefaultCacheSize) /\ NativeRouterInit(DefaultRouterConfig)
    /\ GuardInit(TestLimit, TestWindow) /\ DefaultPatchInit /\ HealthInit
    /\ DefaultAcceleratorInit

SpecWrapper == InitWrapper /\ [][WrapperNext]_vars

\* C18: in a call through either wrapper in which the Rust implementation
\* raises, one error is recorded against the feature, the original
\* implementation is called with the same arguments and its result is
\* returned; the caller never sees the Rust exception, and sees an exception
\* only when the original implementation itself raised.
C18_AutomaticFallback ==
    pw_last.op = "call" =>
        /\ pw_last.rust_outcome = "raises" =>
               /\ ff_errors = pw_last.errors_before + 1
               /\ pw_last.original_called
               /\ pw_last.original_args = pw_last.args
               /\ pw_last.original_outcome = "returns" =>
                      pw_last.result = [by |-> "original", args |-> pw_last.args]
        /\ pw_last.raised # "RustError"
        /\ pw_last.raised # NoError => pw_last.original_outcome = "raises"

\* C24: a wrapper dispatches by the mode fixed when it was built from the
\* feature's state: built for a disabled feature (python_only) it never calls
\* the Rust implementation, built for an enabled one (rust_direct) it calls it
\* on every call without asking is_enabled, and built otherwise (conditional)
\* it asks is_enabled on every call and calls Rust exactly when the answer is
\* true.
C24_DispatchByMode ==
    /\ pw_wrapper.mode =
           (CASE pw_wrapper.feature_state = "ENABLED" -> "rust_direct"
              [] pw_wrapper.feature_state = "DISABLED" -> "python_only"
              [] OTHER -> "conditional")
    /\ pw_last.op = "call" =>
           CASE pw_wrapper.feature_state = "DISABLED" ->
                    ~pw_last.rust_called /\ ~pw_last.consulted
             [] pw_wrapper.feature_state = "ENABLED" ->
                    pw_last.rust_called /\ ~pw_last.consulted
             [] OTHER ->
                    pw_last.consulted /\ (pw_last.rust_called <=> pw_last.enabled)

\* C24 witness: a conditional PerformanceWrapper, on its second or a later
\* call, asked is_enabled, got yes and called the Rust implementation.
C24_Witness ==
    /\ pw_last.op = "call" /\ pw_wrapper.mode = "conditional"
    /\ pw_wrapper.class = "PerformanceWrapper"
    /\ pw_last.consulted /\ pw_last.enabled /\ pw_last.rust_called
    /\ pw_calls >= 2

\* C25: while a temporary_disable_feature block for the feature is open, no
\* call through a wrapper installed before the block calls the Rust
\* implementation, whatever state the feature had when the wrapper was built.
C25_DisabledInsideBlock ==
    pw_last.op = "call" /\ pw_last.in_block => ~pw_last.rust_called

(***************************************************************************)
(* Monkeypatching claims.                                                  *)
(***************************************************************************)
InitPatch ==
    /\ \E first \in [Patchers -> [Attrs -> {Original, Absent}]] : PatchInit(first)
    /\ PoolInit(DefaultMaxConnections) /\ LimiterInit
    /\ CounterInit(DefaultCacheSize) /\ CoreInit
    /\ NativeCounterInit(DefaultCacheSize) /\ NativeRouterInit(DefaultRouterConfig)
    /\ GuardInit(TestLimit, TestWindow) /\ DefaultWrapperInit /\ HealthInit
    /\ DefaultAcceleratorInit

SpecPatch == InitPatch /\ [][PatchNext]_vars

\* C19: when remove_acceleration returns, every attribute that acceleration
\* replaced holds what it held before acceleration was first applied, however
\* many times apply_acceleration was called before, and the registry of
\* originals is empty.
C19_RemoveRestores ==
    mp_last.op = "remove" =>
        /\ \A a \in mp_replaced[mp_last.patcher] :
               mp_attr[mp_last.patcher][a] = mp_first[mp_last.patcher][a]
        /\ \A a \in Attrs : original_classes[mp_last.patcher][a] = NoOriginal

\* The keys of _original_implementations.
OriginalKeys(patcher) == {a \in Attrs : original_classes[patcher][a] # NoOriginal}

C27_PatchResult ==
    /\ [](/\ rust_implementations = OriginalKeys("enhanced_monkeypatch")
          /\ patched_functions = OriginalKeys("enhanced_monkeypatch"))
    /\ [][\A a \in Attrs : \A importable \in BOOLEAN :
             EnhancedPatch(a, importable) =>
                 /\ mp_last'.result <=>
                        (importable /\ mp_attr["enhanced_monkeypatch"][a] # Absent)
                 /\ ~mp_last'.result =>
                        UNCHANGED <<mp_attr, original_classes, rust_implementations,
                                    patched_functions>>
                 /\ mp_last'.result =>
                        /\ a \in OriginalKeys("enhanced_monkeypatch")'
                        /\ a \in rust_implementations'
                        /\ a \in patched_functions']_vars

\* C27 witness: a patch of the Router succeeded and put its key into the
\* three registries; the patch of a name LiteLLM does not have then returned
\* False and left them as they were.
C27_Witness ==
    /\ mp_last.op = "patch" /\ ~mp_last.result /\ mp_applies = 2
    /\ mp_attr["enhanced_monkeypatch"]["litellm.SimpleRateLimiter"] = Absent
    /\ rust_implementations = {"litellm.router.Router"}
    /\ patched_functions = {"litellm.router.Router"}
    /\ OriginalKeys("enhanced_monkeypatch") = {"litellm.router.Router"}

(***************************************************************************)
(* Diagnostics claims.                                                     *)
(***************************************************************************)
InitHealth ==
    /\ \E flag \in BOOLEAN : DiagnosticsInit(flag)
    /\ PoolInit(DefaultMaxConnections) /\ LimiterInit
    /\ CounterInit(DefaultCacheSize) /\ CoreInit
    /\ NativeCounterInit(DefaultCacheSize) /\ NativeRouterInit(DefaultRouterConfig)
    /\ GuardInit(TestLimit, TestWindow) /\ DefaultWrapperInit /\ DefaultPatchInit
    /\ DefaultAcceleratorInit

SpecHealth == InitHealth /\ [][HealthNext]_vars

\* The key a check's result goes under, and the key its error string goes under.
HealthyKey(check) ==
    CASE check = "health_check" -> "core_healthy"
      [] check = "advanced_router_health_check" -> "router_healthy"
      [] check = "token_health_check" -> "token_healthy"
      [] check = "connection_pool_health_check" -> "connection_pool_healthy"
      [] check = "rate_limit_health_check" -> "rate_limiter_healthy"

ErrorKey(check) ==
    IF check = "advanced_router_health_check" THEN "router_error" ELSE "error"

ComponentOf(check) ==
    CASE check \in {"health_check", "advanced_router_health_check"} -> "core"
      [] check = "token_health_check" -> "token"
      [] check = "connection_pool_health_check" -> "connection_pool"
      [] check = "rate_limit_health_check" -> "rate_limiter"

\* C20: health_check() never raises: whatever each component's check does
\* (returns true, returns false, raises, is missing) it returns a result
\* dict, in which every check that raised is recorded as False together with
\* an error string.
C20_NeverRaises ==
    hc_last.op = "health_check" =>
        /\ hc_last.raised = NoError
        /\ hc_last.results.rust_acceleration_available = hc_last.available
        /\ hc_last.available =>
               /\ DOMAIN hc_last.results.components = Components
               /\ \A c \in Checks : hc_last.outcome[c] = "raises" =>
                      LET d == hc_last.results.components[ComponentOf(c)] IN
                      /\ d[HealthyKey(c)] = "False"
                      /\ d[ErrorKey(c)] = ErrorString

\* C20 witness: a call in which one check raised, one was missing, one
\* returned true and one returned false, and a result dict came back.
C20_Witness ==
    /\ hc_last.op = "health_check" /\ hc_last.available
    /\ \A o \in CheckOutcomes : \E c \in Checks : hc_last.outcome[c] = o
    /\ DOMAIN hc_last.results.components = Components

\* C28: health_check() reports overall_healthy True exactly when every check
\* it performed (core, advanced router, token, connection pool, rate limiter)
\* returned True: a performed check that returned False or raised makes it
\* False.
C28_OverallIffEveryCheckPassed ==
    hc_last.op = "health_check" /\ hc_last.available /\ hc_last.raised = NoError =>
        (hc_last.results.overall_healthy = "True"
            <=> \A c \in Checks : hc_last.outcome[c] \in {"True", "missing"})

SpecDiagnosticsFlag == InitHealth /\ [][FlagNext]_vars

\* C23: health_check() and get_performance_stats() report under
\* 'rust_acceleration_available' the value
\* rust_extensions.RUST_ACCELERATION_AVAILABLE has when they are called: True
\* after the flag was set to True, False after it was set to False.
C23_ReportsFlagAtCall ==
    hc_last.op \in {"health_check", "get_performance_stats"} =>
        hc_last.results.rust_acceleration_available = hc_last.flag

(***************************************************************************)
(* Round trip of the patching.                                             *)
(***************************************************************************)
\* C29: apply_acceleration followed by remove_acceleration is a round trip:
\* an attribute LiteLLM did not have before the patching is absent again once
\* remove_acceleration has returned.
C29_CreatedAttributeRemoved ==
    mp_last.op = "remove" =>
        \A a \in Attrs : mp_first[mp_last.patcher][a] = Absent =>
            mp_attr[mp_last.patcher][a] = Absent

(***************************************************************************)
(* Accelerator package claims.                                             *)
(***************************************************************************)
InitAccelerator ==
    /\ \E env_setting \in EnvSettings, load \in LoadOutcomes :
           AcceleratorInit(env_setting, load)
    /\ PoolInit(DefaultMaxConnections) /\ LimiterInit
    /\ CounterInit(DefaultCacheSize) /\ CoreInit
    /\ NativeCounterInit(DefaultCacheSize) /\ NativeRouterInit(DefaultRouterConfig)
    /\ GuardInit(TestLimit, TestWindow)
    /\ DefaultWrapperInit /\ DefaultPatchInit /\ HealthInit

SpecAccelerator == InitAccelerator /\ [][AcceleratorNext]_vars

\* C22: enable_rust_acceleration(enabled) returns True only when acceleration
\* is in the requested state afterwards: is_rust_acceleration_available() is
\* True after enable_rust_acceleration(True) returned True and False after
\* enable_rust_acceleration(False) returned True, for every environment
\* setting and every outcome of loading the components.
C22_TrueMeansRequestedState ==
    ea_last.op = "enable" /\ ea_last.result =>
        (is_rust_acceleration_available <=> ea_last.enabled)

\* C30: _ACCELERATION_ENABLED implies _RUST_AVAILABLE; _RUST_AVAILABLE holds
\* exactly when _RUST_COMPONENTS holds all four components, and becomes true
\* only in a call whose load found all four health checks true;
\* get_rust_components() returns the components only while
\* is_rust_acceleration_available() is True and None otherwise.
C30_GlobalsConsistent ==
    /\ [](/\ ACCELERATION_ENABLED => RUST_AVAILABLE
          /\ RUST_AVAILABLE <=> RUST_COMPONENTS = RustComponents
          /\ RUST_COMPONENTS \in {NoComponents, RustComponents}
          /\ get_rust_components =
                 (IF RUST_AVAILABLE /\ ACCELERATION_ENABLED
                  THEN RustComponents ELSE NoComponents)
          /\ ea_last.loaded =>
                 /\ ea_last.load.imports = "ok"
                 /\ ea_last.load.healthy = RustComponents
          /\ ea_last.op = "import" /\ RUST_AVAILABLE => ea_last.loaded)
    /\ [][~RUST_AVAILABLE /\ RUST_AVAILABLE' => ea_last'.loaded]_vars

\* C30 witness: the second call after the import loaded the four components;
\* acceleration is on and get_rust_components() returns them.
C30_Witness ==
    /\ ea_last.op = "enable" /\ ea_last.loaded /\ ea_calls = 2
    /\ RUST_AVAILABLE /\ ACCELERATION_ENABLED
    /\ get_rust_components = RustComponents

====
